---- MODULE Spec2Model ----
(***************************************************************************)
(* ExternalComm.run (sashimi/processes/external_communication.py) and      *)
(* StytraComm.trigger_and_receive_duration                                 *)
(* (sashimi/hardware/external_trigger/stytra.py).                          *)
(*                                                                         *)
(* One coordinator process runs the loop of ExternalComm.run; the other    *)
(* processes of the acquisition system appear as the writers of the five   *)
(* events and as the producer of the settings queue.  The peer appears as  *)
(* the reply (or the silence) that one call of the link meets.             *)
(***************************************************************************)
EXTENDS Integers, Sequences, FiniteSets, TLC

\* ------------------------------------------------------------------ bounds
\* how often the writer of experiment_start_event sets it
MaxPulses == 2
\* how many settings entries the producer publishes
MaxPublished == 3

VARIABLES
    \* the events
    stop_event,             \* stop
    start_comm,             \* experimentStart
    saving_event,           \* isSaving
    is_triggered_event,     \* hardwareTriggered
    waiting_event,          \* isWaiting
    \* the two queues
    current_settings_queue,
    duration_queue,
    \* ExternalComm's fields and run's locals
    scanning_trigger,
    scopeless,              \* conf["scopeless"]
    current_settings,
    current_config,         \* <<>> while the local is unbound, <<config>> after
    last_trigger_cond,      \* self._last_trigger_cond
    cond_ret,               \* what trigger_condition returned: "True", "False", "None"
    duration,               \* the local `duration` of run
    pc,                     \* where run is
    \* zmq resources of the link
    sockets,                \* sockets that are open
    contexts,               \* contexts that are not destroyed
    \* writers' counters
    pulses,
    published,
    \* history of the current iteration, and of the values the link returned
    stop_seen,              \* what the last `while not stop_event.is_set()` read
    cycle,
    ret_log,
    hist,
    \* the peer and the wire
    calls,                  \* requests sent so far; request n went out on socket SocketFor(n)
    pending,                \* requests the peer has not answered yet
    inbox                   \* replies delivered to the socket that is open

vars == << stop_event, start_comm, saving_event, is_triggered_event, waiting_event,
           current_settings_queue, duration_queue, scanning_trigger, scopeless,
           current_settings, current_config, last_trigger_cond, cond_ret, duration, pc, sockets,
           contexts, pulses, published, stop_seen, cycle, ret_log, hist, calls,
           pending, inbox >>

events == << stop_event, start_comm, saving_event, is_triggered_event, waiting_event >>
writers == << pulses, published >>
link == << sockets, contexts >>
wire == << calls, pending, inbox >>
conf == << scanning_trigger, scopeless >>

\* ------------------------------------------------- python values on the wire
\* A decoded JSON scalar.  A float carries its value in halves (n = 5 is 2.5);
\* s tells a finite float from nan, inf and -inf.
JInt(i) == [t |-> "int", n |-> i, s |-> ""]
JFloat(h) == [t |-> "float", n |-> h, s |-> "fin"]
JNaN == [t |-> "float", n |-> 0, s |-> "nan"]
JPosInf == [t |-> "float", n |-> 0, s |-> "inf"]
JNegInf == [t |-> "float", n |-> 0, s |-> "-inf"]
JStr(x) == [t |-> "str", n |-> 0, s |-> x]
JBool(b) == [t |-> "bool", n |-> IF b THEN 1 ELSE 0, s |-> ""]
JList == [t |-> "list", n |-> 0, s |-> ""]
JDict == [t |-> "dict", n |-> 0, s |-> ""]
\* Python's None (what JSON null decodes to, and the absent duration)
None == [t |-> "null", n |-> 0, s |-> ""]

Scalars == { JFloat(5), JInt(1), JNaN, JPosInf, JNegInf, JStr("2.5"), JStr("abc"),
             JStr("inf"), JBool(TRUE), None, JList, JDict }

\* What the peer does with one request: nothing within the window, bytes that
\* are not a JSON document, a bare value, or an object with or without the key
\* "duration".
NoReply == [shape |-> "none", has |-> FALSE, val |-> None]
Malformed == [shape |-> "malformed", has |-> FALSE, val |-> None]
Bare(v) == [shape |-> "bare", has |-> FALSE, val |-> v]
Obj(v) == [shape |-> "object", has |-> TRUE, val |-> v]
ObjNoDuration == [shape |-> "object", has |-> FALSE, val |-> None]
\* the iteration's link call has not reached its poll
NotPolled == [shape |-> "pending", has |-> FALSE, val |-> None]

Replies == { NoReply, Malformed, ObjNoDuration }
             \cup { Bare(v) : v \in Scalars \ {JDict} }
             \cup { Obj(v) : v \in Scalars }

\* ------------------------------------------- StytraComm, the network link
\* the poll forgotten: recv_json is called whether or not a reply arrived
PollReady_Always(reply) == TRUE

\* poller.poll(1000): true when a reply arrived within the window
PollReady(reply) == reply.shape # "none"

\* zmq_socket.recv_json(): the decoded document, or an exception when the bytes
\* received are not a JSON document (or when there is nothing to receive)
recv_json(reply) == [ok |-> reply.shape \in {"bare", "object"}, val |-> reply]

\* the object never unwrapped: the reply itself is always the candidate
Candidate_NoUnwrap(reply) == IF reply.shape = "object" THEN JDict ELSE reply.val

\* the duration candidate: reply["duration"] when the reply is a dict holding
\* that key, the reply itself otherwise
Candidate(reply) ==
    IF reply.shape = "object" /\ reply.has THEN reply.val
    ELSE IF reply.shape = "object" THEN JDict
    ELSE reply.val

\* float(str) on the texts of Scalars: a numeric literal parses, "inf" and "nan"
\* parse to the non-finite floats, anything else raises ValueError
ParseFloat(x) ==
    CASE x = "2.5" -> [ok |-> TRUE, val |-> JFloat(5)]
      [] x = "inf" -> [ok |-> TRUE, val |-> JPosInf]
      [] x = "-inf" -> [ok |-> TRUE, val |-> JNegInf]
      [] x = "nan" -> [ok |-> TRUE, val |-> JNaN]
      [] OTHER -> [ok |-> FALSE, val |-> None]

\* float(duration or 0): None counts as 0.0
PyFloat_NoneIsZero(d) ==
    CASE d.t = "float" -> [ok |-> TRUE, val |-> d]
      [] d.t = "int" -> [ok |-> TRUE, val |-> JFloat(2 * d.n)]
      [] d.t = "bool" -> [ok |-> TRUE, val |-> JFloat(2 * d.n)]
      [] d.t = "str" -> ParseFloat(d.s)
      [] d.t = "null" -> [ok |-> TRUE, val |-> JFloat(0)]
      [] OTHER -> [ok |-> FALSE, val |-> None]

\* float(d): a float is itself, an int and a bool convert, a str is parsed,
\* None, a list and a dict raise TypeError
PyFloat(d) ==
    CASE d.t = "float" -> [ok |-> TRUE, val |-> d]
      [] d.t = "int" -> [ok |-> TRUE, val |-> JFloat(2 * d.n)]
      [] d.t = "bool" -> [ok |-> TRUE, val |-> JFloat(2 * d.n)]
      [] d.t = "str" -> ParseFloat(d.s)
      [] OTHER -> [ok |-> FALSE, val |-> None]

\* only NaN rejected (duration_val != duration_val), the infinities let through
IsFinite_NaNOnly(f) == f.t = "float" /\ f.s # "nan"

\* math.isfinite
IsFinite(f) == f.t = "float" /\ f.s = "fin"

\* try: duration_val = float(duration) except Exception: duration_val = None;
\* None or not finite gives None
Normalize(d) ==
    LET f == PyFloat(d)
        duration_val == IF f.ok THEN f.val ELSE None
    IN  IF duration_val = None \/ ~IsFinite(duration_val) THEN None ELSE duration_val

\* What the body of the with block does with the peer's reply: the value it
\* leaves in `duration`, or the exception that leaves the block
Exchange(reply) ==
    IF PollReady(reply)
    THEN LET r == recv_json(reply)
         IN  IF r.ok THEN [raised |-> FALSE, ret |-> Normalize(Candidate(r.val))]
             ELSE [raised |-> TRUE, ret |-> None]
    ELSE [raised |-> FALSE, ret |-> None]

\* Leaving the call: the with statement closes the socket on every exit;
\* zmq_context.destroy() follows the block and runs only when no exception
\* left it
Teardown(raised, socks, ctxs) ==
    [sockets |-> socks - 1, contexts |-> IF raised THEN ctxs ELSE ctxs - 1]

\* ------------------------------------------------------------ ExternalComm
\* sashimi.utilities.clean_json: the sanitized entry
clean_json(entry) == [clean |-> entry]

\* dict(lightsheet=...)
Config(entry) == [lightsheet |-> clean_json(entry)]

\* LoggedEvent.is_set and Event.wait(timeout): whether the event is set (when
\* the wait ends)
is_set(ev) == ev

\* a wait that gives up at once and reports the event as not set
EventWait_Never(ev) == FALSE

EventWait(ev) == ev

\* the fallback dropped: a wait that raises counts as not started
Started_FalseOnRaise(wait_raises, ev) == IF wait_raises THEN FALSE ELSE EventWait(ev)

\* try: started = self.start_comm.event.wait(timeout=1.0)
\* except Exception: started = self.start_comm.is_set()
Started(wait_raises, ev) == IF wait_raises THEN is_set(ev) ELSE EventWait(ev)

\* the test of waiting_event left out of the condition
GatingExpr_NoWaiting ==
    is_set(start_comm) /\ is_set(saving_event) /\ is_set(is_triggered_event)

\* the boolean expression of trigger_condition
GatingExpr ==
    is_set(start_comm) /\ is_set(saving_event) /\ is_set(is_triggered_event)
        /\ ~is_set(waiting_event)

PyBool(b) == IF b THEN "True" ELSE "False"

\* the comparison dropped: every evaluation logs
Changed_Always(cond, last) == TRUE

\* if cond != self._last_trigger_cond
Changed(cond, last) == cond # last

\* conf["external_communication"]["name"]
LinkName == "stytra"

\* the link chosen by the configured name alone
CommClass_ByName(no_hardware, name) == name

\* if conf["scopeless"]: external_comm_class_dict["mock"]()
\* else: external_comm_class_dict[conf["external_communication"]["name"]](address)
CommClass(no_hardware, name) == IF no_hardware THEN "mock" ELSE name

\* self.comm
comm == CommClass(scopeless, LinkName)

\* what the mock link returns: absent, or the constant it was given
MockReturns == {None, JFloat(2)}

\* while True: stop is never looked at
AfterStopCheck_Never(stopped) == "drain"

\* while not self.stop_event.is_set(): ... self.close_log()
AfterStopCheck(stopped) == IF stopped THEN "done" ELSE "drain"

\* the request dropped when the queue is found empty
OnEmpty_Reset(cfg) == << >>

\* except Empty: break leaves the locals of run as they are
OnEmpty(cfg) == cfg

\* the put forgotten: run goes from the call to the clear
AfterReceive_SkipPut(raised) == IF raised THEN "crashed" ELSE "clear"

\* an exception leaves run; a returned call is followed by the put
AfterReceive(raised) == IF raised THEN "crashed" ELSE "put"

\* the test for None dropped: whatever the link returned is put
PutDuration_Always(q, d) == Append(q, d)

\* if duration is not None: self.duration_queue.put(duration)
PutDuration(q, d) == IF d # None THEN Append(q, d) ELSE q

\* one socket made once and used by every call
SocketFor_Shared(n) == 1

\* zmq_context.socket(zmq.REQ) inside the call: request n has a socket of its own
SocketFor(n) == n

\* the call handed to a worker: run goes on without waiting for its result
AfterDispatch_Async(connect_ok) == IF connect_ok THEN "while" ELSE "crashed"

\* duration = self.comm.trigger_and_receive_duration(current_config) is a
\* plain call: run waits in it until it returns or raises
AfterDispatch(connect_ok) == IF connect_ok THEN "poll" ELSE "crashed"

\* the request built only once: if current_config is unset
Rebuild_KeepFirst(cfg, entry) == IF cfg = << >> THEN << Config(entry) >> ELSE cfg

\* current_config = dict(lightsheet=clean_json(self.current_settings))
Rebuild(cfg, entry) == << Config(entry) >>

\* `if cond is not False`: None passes
AfterCondition_NotFalse(ret) == IF ret # "False" THEN "wait" ELSE "while"

\* where run goes with what trigger_condition returned
AfterCondition(ret) == IF ret = "True" THEN "wait" ELSE "while"

\* the continue forgotten: the trigger is sent whatever the wait said
AfterWait_Always(started) == "send"

\* if not started: ... continue
AfterWait(started) == IF started THEN "send" ELSE "while"

\* current_config given a default before the loop: the name is always bound
ConfigBound_Always(cfg) == TRUE

\* current_config is a local of run, assigned only in the drain: reading it
\* before any entry was drained raises UnboundLocalError
ConfigBound(cfg) == cfg # << >>

\* the clear forgotten
StartCommClear_Noop(start, waiting) ==
    [start_comm |-> start, waiting_event |-> waiting]

\* a second event cleared with it
StartCommClear_Both(start, waiting) ==
    [start_comm |-> FALSE, waiting_event |-> FALSE]

\* self.start_comm.clear(): no other event is touched
StartCommClear(start, waiting) ==
    [start_comm |-> FALSE, waiting_event |-> waiting]

NoCycle == [confirmed |-> FALSE, clears |-> 0, puts |-> 0, called |-> FALSE,
            returned |-> FALSE, raised |-> FALSE, reply |-> NotPolled, ret |-> None,
            popped |-> {}, evaluated |-> FALSE, signals |-> FALSE,
            gated |-> FALSE, sent |-> << >>, pulse |-> 0, answers |-> 0,
            dropped |-> FALSE, fallback |-> FALSE, start_cleared |-> FALSE]

NoHist == [clears |-> 0, clear_pulse |-> 0, after_stop |-> 0]

Init ==
    /\ stop_event = FALSE
    /\ start_comm = FALSE
    /\ saving_event = FALSE
    /\ is_triggered_event = FALSE
    /\ waiting_event = FALSE
    /\ current_settings_queue = << >>
    /\ duration_queue = << >>
    /\ scanning_trigger \in BOOLEAN
    /\ scopeless \in BOOLEAN
    /\ current_settings = 0
    /\ current_config = << >>
    /\ last_trigger_cond = FALSE
    /\ cond_ret = "None"
    /\ duration = None
    /\ pc = "while"
    /\ sockets = 0
    /\ contexts = 0
    /\ pulses = 0
    /\ published = 0
    /\ stop_seen = FALSE
    /\ cycle = NoCycle
    /\ ret_log = << >>
    /\ hist = NoHist
    /\ calls = 0
    /\ pending = {}
    /\ inbox = << >>

\* while not self.stop_event.is_set(): ... self.close_log()
StopCheck ==
    /\ pc = "while"
    /\ stop_seen' = is_set(stop_event)
    /\ cycle' = NoCycle
    /\ pc' = AfterStopCheck(is_set(stop_event))
    /\ UNCHANGED << events, writers, link, wire, hist, current_settings_queue,
                    duration_queue, conf, current_settings,
                    current_config, last_trigger_cond, cond_ret, duration, ret_log >>

\* current_settings_queue.get(timeout=0.00001) returned an entry
DrainGet ==
    /\ pc = "drain"
    /\ current_settings_queue # << >>
    /\ current_settings' = Head(current_settings_queue)
    /\ current_config' = Rebuild(current_config, Head(current_settings_queue))
    /\ current_settings_queue' = Tail(current_settings_queue)
    /\ cycle' = [cycle EXCEPT !.popped = @ \cup {Head(current_settings_queue)}]
    /\ UNCHANGED << events, writers, link, wire, hist, duration_queue, conf,
                    last_trigger_cond, cond_ret, duration, pc, stop_seen, ret_log >>

\* current_settings_queue.get raised Empty: break
DrainEmpty ==
    /\ pc = "drain"
    /\ current_settings_queue = << >>
    /\ pc' = "cond"
    /\ current_config' = OnEmpty(current_config)
    /\ UNCHANGED << events, writers, link, wire, hist, current_settings_queue,
                    duration_queue, conf, current_settings,
                    last_trigger_cond, cond_ret, duration,
                    stop_seen, cycle, ret_log >>

\* trigger_condition up to the comparison with _last_trigger_cond; without
\* scanning_trigger the function falls off its end and returns None
EvalCondition ==
    /\ pc = "cond"
    /\ IF scanning_trigger
       THEN /\ cond_ret' = PyBool(GatingExpr)
            /\ pc' = IF Changed(GatingExpr, last_trigger_cond) THEN "log"
                     ELSE AfterCondition(PyBool(GatingExpr))
       ELSE /\ cond_ret' = "None"
            /\ pc' = AfterCondition("None")
    /\ cycle' = [cycle EXCEPT !.evaluated = TRUE,
                              !.signals = (start_comm /\ saving_event
                                           /\ is_triggered_event /\ ~waiting_event),
                              !.gated = (cond_ret' = "True"), !.popped = {}]
    /\ UNCHANGED << events, writers, link, wire, hist, current_settings_queue,
                    duration_queue, conf, current_settings,
                    current_config, last_trigger_cond, duration, stop_seen, ret_log >>

\* The line LogCondition writes: the f-string of trigger_condition calls
\* is_set() on the four events again when it is formatted, and prints cond as
\* computed before.
LogLine ==
    [start_comm |-> is_set(start_comm), saving |-> is_set(saving_event),
     is_triggered |-> is_set(is_triggered_event),
     waiting |-> is_set(waiting_event), cond |-> cond_ret]

\* the log line of trigger_condition, and self._last_trigger_cond = cond
LogCondition ==
    /\ pc = "log"
    /\ last_trigger_cond' = (cond_ret = "True")
    /\ pc' = AfterCondition(cond_ret)
    /\ UNCHANGED << events, writers, link, wire, hist, current_settings_queue,
                    duration_queue, conf, current_settings,
                    current_config, cond_ret, duration, stop_seen, cycle, ret_log >>

\* started = self.start_comm.event.wait(timeout=1.0), or is_set() when the wait
\* raises; not started: continue
WaitStart ==
    /\ pc = "wait"
    /\ \E wait_raises \in BOOLEAN :
         LET started == Started(wait_raises, start_comm)
         IN  /\ pc' = AfterWait(started)
             /\ cycle' = [cycle EXCEPT !.confirmed = started,
                                       !.fallback = wait_raises]
    /\ UNCHANGED << events, writers, link, wire, hist, current_settings_queue,
                    duration_queue, conf, current_settings,
                    current_config, last_trigger_cond, cond_ret, duration,
                    stop_seen, ret_log >>

\* print(... current_config.keys() ...) and the call of the link: an unbound
\* current_config raises; the mock link returns at once; the network link goes
\* up to send_json, and a failing connect raises out of its with block.
\* Nothing in run catches an exception.  What the iteration recorded about its
\* confirmation is dropped here.
Dispatch ==
    /\ pc = "send"
    /\ IF ~ConfigBound(current_config)
       THEN /\ pc' = "crashed"
            /\ UNCHANGED << link, cycle, calls, pending, hist, duration, ret_log >>
       ELSE IF comm = "mock"
       THEN \E r \in MockReturns :
              /\ pc' = "put"
              /\ duration' = r
              /\ calls' = calls + 1
              /\ cycle' = [cycle EXCEPT !.called = TRUE, !.pulse = pulses,
                                        !.sent = current_config, !.returned = TRUE,
                                        !.ret = r, !.fallback = FALSE,
                                        !.start_cleared = FALSE]
              /\ ret_log' = IF r # None THEN Append(ret_log, r) ELSE ret_log
              /\ hist' = [hist EXCEPT !.after_stop = @ + IF stop_event THEN 1 ELSE 0]
              /\ UNCHANGED << link, pending >>
       ELSE \E connect_ok \in BOOLEAN :
              /\ pc' = AfterDispatch(connect_ok)
              /\ IF connect_ok
                 THEN /\ sockets' = sockets + 1
                      /\ contexts' = contexts + 1
                      /\ calls' = calls + 1
                      /\ pending' = pending \cup {calls + 1}
                      /\ cycle' = [cycle EXCEPT !.called = TRUE, !.pulse = pulses,
                                                !.sent = current_config,
                                                !.fallback = FALSE,
                                                !.start_cleared = FALSE]
                      /\ hist' = [hist EXCEPT
                                    !.after_stop = @ + IF stop_event THEN 1 ELSE 0]
                 ELSE /\ sockets' = Teardown(TRUE, sockets + 1, contexts + 1).sockets
                      /\ contexts' = Teardown(TRUE, sockets + 1, contexts + 1).contexts
                      /\ cycle' = [cycle EXCEPT !.called = TRUE, !.raised = TRUE,
                                                !.pulse = pulses, !.fallback = FALSE,
                                                !.start_cleared = FALSE]
                      /\ UNCHANGED << calls, pending, hist >>
              /\ UNCHANGED << duration, ret_log >>
    /\ UNCHANGED << events, writers, inbox, current_settings_queue,
                    duration_queue, conf, current_settings,
                    current_config, last_trigger_cond, cond_ret, stop_seen >>

\* the rest of trigger_and_receive_duration: poll, recv_json, normalization,
\* teardown, return.  The reply is the one that reached this call's socket;
\* closing the socket discards what it holds.
Receive ==
    /\ pc = "poll"
    /\ LET reply == IF inbox = << >> THEN NoReply ELSE Head(inbox).reply
           res == Exchange(reply)
           after == Teardown(res.raised, sockets, contexts)
       IN  /\ sockets' = after.sockets
           /\ contexts' = after.contexts
           /\ duration' = IF res.raised THEN duration ELSE res.ret
           /\ cycle' = [cycle EXCEPT !.reply = reply, !.raised = res.raised,
                                     !.returned = ~res.raised, !.ret = res.ret,
                                     !.answers = IF inbox = << >> THEN 0
                                                 ELSE Head(inbox).req]
           /\ ret_log' = IF ~res.raised /\ res.ret # None
                         THEN Append(ret_log, res.ret) ELSE ret_log
           /\ pc' = AfterReceive(res.raised)
    /\ inbox' = << >>
    /\ UNCHANGED << events, writers, hist, calls, pending, current_settings_queue,
                    duration_queue, conf, current_settings,
                    current_config, last_trigger_cond, cond_ret, stop_seen >>

\* if duration is not None: self.duration_queue.put(duration)
Put ==
    /\ pc = "put"
    /\ duration_queue' = PutDuration(duration_queue, duration)
    /\ cycle' = [cycle EXCEPT !.puts = @ + Len(duration_queue') - Len(duration_queue)]
    /\ pc' = "clear"
    /\ UNCHANGED << events, writers, link, wire, hist, current_settings_queue,
                    conf, current_settings, current_config,
                    last_trigger_cond, cond_ret, duration, stop_seen, ret_log >>

\* self.start_comm.clear()
ClearStart ==
    /\ pc = "clear"
    /\ start_comm' = StartCommClear(start_comm, waiting_event).start_comm
    /\ waiting_event' = StartCommClear(start_comm, waiting_event).waiting_event
    /\ cycle' = [cycle EXCEPT !.clears = @ + 1]
    /\ hist' = [hist EXCEPT !.clears = @ + 1, !.clear_pulse = pulses]
    /\ pc' = "while"
    /\ UNCHANGED << stop_event, saving_event, is_triggered_event,
                    writers, link, wire, current_settings_queue, duration_queue,
                    conf, current_settings, current_config,
                    last_trigger_cond, cond_ret, duration, stop_seen, ret_log >>

\* ------------------------------------------------------ the other processes
coordinator == << current_settings, current_config, last_trigger_cond, cond_ret,
                  duration, pc, stop_seen, cycle, ret_log, conf,
                  duration_queue, hist >>

SetStop ==
    /\ ~stop_event
    /\ stop_event' = TRUE
    /\ UNCHANGED << start_comm, saving_event, is_triggered_event, waiting_event,
                    coordinator, writers, link, wire, current_settings_queue >>

SetStart ==
    /\ ~start_comm
    /\ pulses < MaxPulses
    /\ start_comm' = TRUE
    /\ pulses' = pulses + 1
    /\ UNCHANGED << stop_event, saving_event, is_triggered_event, waiting_event,
                    coordinator, published, link, wire, current_settings_queue >>

\* the writer of experiment_start_event clears it; the iteration records a
\* clear that falls between its evaluation and its confirmation
WriterClearStart ==
    /\ start_comm
    /\ start_comm' = FALSE
    /\ cycle' = [cycle EXCEPT
                    !.start_cleared = @ \/ (cycle.gated /\ pc \in {"log", "wait"})]
    /\ UNCHANGED << stop_event, saving_event, is_triggered_event, waiting_event,
                    current_settings, current_config, last_trigger_cond, cond_ret,
                    duration, pc, stop_seen, ret_log, conf, duration_queue, hist,
                    writers, link, wire, current_settings_queue >>

ToggleSaving ==
    /\ saving_event' = ~saving_event
    /\ UNCHANGED << stop_event, start_comm, is_triggered_event, waiting_event,
                    coordinator, writers, link, wire, current_settings_queue >>

ToggleTriggered ==
    /\ is_triggered_event' = ~is_triggered_event
    /\ UNCHANGED << stop_event, start_comm, saving_event, waiting_event,
                    coordinator, writers, link, wire, current_settings_queue >>

ToggleWaiting ==
    /\ waiting_event' = ~waiting_event
    /\ UNCHANGED << stop_event, start_comm, saving_event, is_triggered_event,
                    coordinator, writers, link, wire, current_settings_queue >>

\* the settings producer publishes its next entry
Publish ==
    /\ published < MaxPublished
    /\ published' = published + 1
    /\ current_settings_queue' = Append(current_settings_queue, published + 1)
    /\ UNCHANGED << events, coordinator, pulses, link, wire >>

\* the peer answers the request of the call that is waiting: the reply reaches
\* the socket the request came from
PeerReply ==
    /\ pc = "poll"
    /\ \E n \in pending, r \in Replies \ {NoReply} :
        /\ SocketFor(n) = SocketFor(calls)
        /\ pending' = pending \ {n}
        /\ inbox' = Append(inbox, [req |-> n, reply |-> r])
    /\ UNCHANGED << events, writers, link, calls, coordinator,
                    current_settings_queue >>

\* the peer answers a request whose socket is closed: the reply is lost
PeerReplyLate ==
    /\ \E n \in pending :
        /\ ~(pc = "poll" /\ SocketFor(n) = SocketFor(calls))
        /\ pending' = pending \ {n}
    /\ cycle' = [cycle EXCEPT !.dropped = @ \/ pc = "poll"]
    /\ UNCHANGED << events, writers, link, calls, inbox, hist,
                    current_settings_queue, duration_queue, conf,
                    current_settings, current_config, last_trigger_cond, cond_ret,
                    duration, pc, stop_seen, ret_log >>

\* the steps of the coordinator
Coordinator ==
    \/ StopCheck
    \/ DrainGet
    \/ DrainEmpty
    \/ EvalCondition
    \/ LogCondition
    \/ WaitStart
    \/ Dispatch
    \/ Receive
    \/ Put
    \/ ClearStart

\* the steps of the other processes
Environment ==
    \/ SetStop
    \/ SetStart
    \/ WriterClearStart
    \/ ToggleSaving
    \/ ToggleTriggered
    \/ ToggleWaiting
    \/ Publish
    \/ PeerReply
    \/ PeerReplyLate

Next == Coordinator \/ Environment

Spec == Init /\ [][Next]_vars

\* A producer that goes on publishing: after its last new entry it publishes
\* the latest settings again, as long as the queue holds fewer than
\* MaxPublished entries.
Republish ==
    /\ published = MaxPublished
    /\ Len(current_settings_queue) < MaxPublished
    /\ current_settings_queue' = Append(current_settings_queue, MaxPublished)
    /\ UNCHANGED << events, coordinator, writers, link, wire >>

NextLive == Next \/ Republish

\* The coordinator is a process of its own and each call it blocks in is
\* bounded in time: a step it can take is taken.
LiveSpec == Init /\ [][NextLive]_vars /\ WF_vars(Coordinator)

\* What run does next depends on a reply only through whether recv_json
\* raises: one reply of each kind stands for the others.
LiveReplies == {Malformed, Obj(JFloat(5))}

PeerReplyLive ==
    /\ pc = "poll"
    /\ \E n \in pending, r \in LiveReplies :
        /\ SocketFor(n) = SocketFor(calls)
        /\ pending' = pending \ {n}
        /\ inbox' = Append(inbox, [req |-> n, reply |-> r])
    /\ UNCHANGED << events, writers, link, calls, coordinator,
                    current_settings_queue >>

NextFair ==
    \/ Coordinator
    \/ SetStop
    \/ SetStart
    \/ WriterClearStart
    \/ ToggleSaving
    \/ ToggleTriggered
    \/ ToggleWaiting
    \/ Publish
    \/ PeerReplyLive
    \/ PeerReplyLate

\* The same scheduling with the producer of Spec, which stops after
\* MaxPublished entries.
FairSpec == Init /\ [][NextFair]_vars /\ WF_vars(Coordinator)

\* ------------------------------------------------------------------ claims
\* run has ended: by leaving the while loop, or by an exception leaving run
RunEnded == pc \in {"done", "crashed"}
\* the iteration's link call is over and run is past it
AfterCall == pc \in {"put", "clear", "while"}
\* the iteration is over
IterationEnd == pc \in {"while", "crashed"}
\* a finite floating-point value
FiniteFloat(v) == v.t = "float" /\ v.s = "fin"
NonFinite == {JNaN, JPosInf, JNegInf}

\* C1: no error inside a cycle ends the loop: whenever run has ended, the last
\* test of the while loop read stop as set.
C1_LoopEndsOnlyOnStop == RunEnded => stop_seen

\* C2: trigger_condition returns true when scanning_trigger holds and
\* experimentStart, isSaving and hardwareTriggered are set and isWaiting is
\* clear, and returns false for every other combination, scanning_trigger
\* disabled included.
C2_TriggerConditionIff ==
    [][(pc = "cond" /\ pc' # "cond")
          => cond_ret' = PyBool(scanning_trigger /\ GatingExpr)]_vars

\* C3: an iteration whose gating condition was true, whose start confirmation
\* succeeded and which called the link ends with experimentStart cleared by
\* the coordinator exactly once, whatever became of the call.
C3_ClearedExactlyOnce ==
    (IterationEnd /\ cycle.confirmed /\ cycle.called) => cycle.clears = 1

\* C4: the duration queue holds exactly the non-absent values the link has
\* returned, in order: a returned value is put once, right after the call
\* returns, an absent result puts nothing, no iteration puts twice and nothing
\* is put without a call that returned.
C4_PushExactlyReturned ==
    /\ pc # "put" => duration_queue = ret_log
    /\ pc = "put" =>
         ret_log = (IF cycle.ret # None THEN Append(duration_queue, cycle.ret)
                    ELSE duration_queue)
    /\ cycle.puts <= 1
    /\ cycle.puts = 1 =>
         /\ cycle.returned /\ cycle.ret # None
         /\ duration_queue[Len(duration_queue)] = cycle.ret
    /\ (pc \in {"clear", "while"} /\ cycle.returned) =>
         cycle.puts = (IF cycle.ret # None THEN 1 ELSE 0)
    /\ ~cycle.returned => cycle.puts = 0

C4_Witness ==
    /\ pc = "clear" /\ cycle.puts = 1
    /\ duration_queue = << JFloat(2), JFloat(5) >>

\* C5: every value on the duration queue is a finite float, and a reply whose
\* candidate is NaN, +Infinity or -Infinity makes the link return absent and
\* the iteration put nothing.
C5_OnlyFiniteDurations ==
    /\ \A i \in 1..Len(duration_queue) : FiniteFloat(duration_queue[i])
    /\ \A x \in NonFinite :
         cycle.reply \in {Bare(x), Obj(x)} =>
             cycle.returned /\ cycle.ret = None /\ cycle.puts = 0

C5_Witness ==
    /\ pc = "while" /\ cycle.reply = Bare(JNaN) /\ cycle.ret = None
    /\ cycle.puts = 0 /\ duration_queue = << >>

\* C6: a reply that is malformed, or an object without a duration field, a list
\* or null, makes the link return absent and raise nothing.
C6_MalformedIsAbsent ==
    cycle.reply \in {Malformed, ObjNoDuration, Bare(JList), Bare(None)}
        => cycle.returned /\ ~cycle.raised /\ cycle.ret = None

\* C7 as stated: a candidate that is not a number (a text, a boolean, null, a
\* list, an object) makes the link return absent.
C7_NonNumberIsAbsent ==
    \A x \in Scalars :
        (x.t \notin {"int", "float"} /\ cycle.reply \in {Bare(x), Obj(x)})
            => cycle.returned /\ cycle.ret = None

\* C7 as amended: a candidate that float() cannot convert to a finite number
\* (null, a list, an object, a text that is no numeric literal, a text naming
\* an infinity) makes the link return absent; a numeric text and a boolean are
\* converted and returned ("2.5" as 2.5, true as 1.0).
C7_UnconvertibleIsAbsent ==
    /\ \A x \in {None, JList, JDict, JStr("abc"), JStr("inf")} :
         cycle.reply \in {Bare(x), Obj(x)} => cycle.returned /\ cycle.ret = None
    /\ cycle.reply \in {Bare(JStr("2.5")), Obj(JStr("2.5"))}
         => cycle.returned /\ cycle.ret = JFloat(5)
    /\ cycle.reply \in {Bare(JBool(TRUE)), Obj(JBool(TRUE))}
         => cycle.returned /\ cycle.ret = JFloat(2)

C7_Witness ==
    /\ AfterCall /\ cycle.reply = Obj(None) /\ cycle.returned /\ cycle.ret = None

\* C8: for a finite number v the reply {duration: v} and the bare reply v both
\* make the link return v (an int as the float of the same value); of an object
\* with a duration field the field is the candidate.
C8_FiniteValueReturned ==
    \A v \in {x \in Scalars : x.t = "int" \/ FiniteFloat(x)} :
        cycle.reply \in {Bare(v), Obj(v)} =>
            /\ cycle.returned
            /\ FiniteFloat(cycle.ret)
            /\ cycle.ret.n = (IF v.t = "int" THEN 2 * v.n ELSE v.n)

C8_Witness ==
    /\ AfterCall /\ cycle.reply = Obj(JFloat(5)) /\ cycle.ret = JFloat(5)

\* C9: with no reply in the window the link returns absent without raising,
\* its socket and its context are gone when it returns, and the iteration puts
\* nothing on the duration queue.
C9_TimeoutIsAbsent ==
    cycle.reply = NoReply =>
        /\ cycle.returned /\ ~cycle.raised /\ cycle.ret = None
        /\ sockets = 0 /\ contexts = 0
        /\ cycle.puts = 0

C9_Witness ==
    /\ pc = "while" /\ cycle.reply = NoReply /\ cycle.returned
    /\ sockets = 0 /\ contexts = 0 /\ cycle.puts = 0

\* C10: outside a call of the link no socket is open and no context is left
\* undestroyed, whichever way the call was left.
C10_ReleasedOnEveryExit == pc # "poll" => (sockets = 0 /\ contexts = 0)

\* C11: the reply a call of the link reads is the reply to the request that
\* call sent: its socket is opened in the call, carries that one request and
\* is closed when the call ends, so the reply to a request that timed out,
\* arriving later, reaches no later call.
C11_OwnReplyOnly ==
    /\ \A i \in 1..Len(inbox) : inbox[i].req = calls
    /\ Len(inbox) <= 1
    /\ pc # "poll" => inbox = << >>
    /\ cycle.answers # 0 => cycle.answers = calls

C11_Witness ==
    /\ calls = 2 /\ cycle.dropped /\ 1 \notin pending
    /\ cycle.returned /\ cycle.answers = 2 /\ cycle.ret = JFloat(5)

\* C12: at most one call of the link is in progress: a socket is open exactly
\* while run waits in the call, and when request N+1 is in flight every
\* earlier call has returned and run has gone through the clear that follows.
C12_OneCallAtATime ==
    /\ sockets <= 1
    /\ sockets = 1 <=> pc = "poll"
    /\ pc = "poll" => calls = hist.clears + 1

C12_Witness == pc = "poll" /\ calls = 2 /\ sockets = 1 /\ hist.clears = 1

\* C13: a drain pops every entry queued before it ends and leaves the request
\* built from the last one popped (the newest: entries are numbered in the
\* order they were published), {lightsheet: clean_json(last)}; the
\* configuration a call of the link is given is the one built from the entry
\* retained then, so an entry popped before the last reaches no call.
C13_LatestWins ==
    /\ (pc \in {"drain", "cond"} /\ cycle.popped # {}) =>
         LET last == CHOOSE e \in cycle.popped : \A x \in cycle.popped : x <= e
         IN  /\ current_settings = last
             /\ current_config = << [lightsheet |-> clean_json(last)] >>
             /\ \A i \in 1..Len(current_settings_queue) :
                    current_settings_queue[i] > last
    /\ cycle.sent # << >> =>
         cycle.sent = << [lightsheet |-> clean_json(current_settings)] >>

C13_Witness ==
    /\ pc = "cond" /\ cycle.popped = {1, 2, 3}
    /\ current_config = << [lightsheet |-> clean_json(3)] >>

\* C14: when run leaves the start confirmation with experimentStart not set,
\* the cycle is skipped: run is back at the test of the while loop, the link
\* was not called, nothing was put on the duration queue, no event changed and
\* the retained settings and request are what they were.
C14_SkipChangesNothing ==
    [][(pc = "wait" /\ pc' # "wait" /\ ~start_comm) =>
          /\ pc' = "while"
          /\ ~cycle'.called /\ cycle'.puts = 0 /\ cycle'.clears = 0
          /\ UNCHANGED << events, duration_queue, current_settings, current_config,
                          duration, link, wire, hist >>]_vars

C14_Witness ==
    /\ pc = "while" /\ cycle.gated /\ ~cycle.confirmed /\ ~stop_seen
    /\ ~cycle.called /\ current_config # << >>

\* C15: once stop is set, run ends.
C15_StopEndsRun == stop_event ~> RunEnded

\* C16: with scanning_trigger disabled run never calls the link, never puts a
\* duration and never clears experimentStart.
C16_DisabledNeverFires ==
    ~scanning_trigger =>
        /\ pc \in {"while", "drain", "cond", "done"}
        /\ calls = 0 /\ sockets = 0 /\ ~cycle.called
        /\ duration_queue = << >>
        /\ hist.clears = 0

C16_Witness ==
    /\ ~scanning_trigger /\ pc = "while"
    /\ cycle.evaluated /\ cycle.signals /\ current_settings # 0

\* C17: the set of experimentStart that lets a dispatch through came after the
\* coordinator's last clear, and every earlier dispatch was followed by that
\* clear: one set is never behind two dispatches.
C17_OnePulseOneTrigger ==
    /\ (cycle.called /\ cycle.clears = 0) => cycle.pulse > hist.clear_pulse
    /\ pc \in {"poll", "put", "clear"} => hist.clears = calls - 1

C17_Witness ==
    /\ pc = "poll" /\ calls = 2 /\ hist.clears = 1
    /\ hist.clear_pulse = 1 /\ cycle.pulse = 2

\* C18 as stated: the coordinator modifies none of the five events.
C18_CoordinatorOnlyReads == [][Coordinator => UNCHANGED events]_vars

\* C18 as amended: the coordinator leaves stop, isSaving, hardwareTriggered and
\* isWaiting as they are; experimentStart it changes only by the clear that
\* follows a returned call of the link, and never sets it.
C18_CoordinatorOnlyClearsStart ==
    [][Coordinator =>
          /\ UNCHANGED << stop_event, saving_event, is_triggered_event,
                          waiting_event >>
          /\ start_comm' # start_comm =>
                (pc = "clear" /\ cycle.returned /\ ~start_comm')]_vars

C18_Witness ==
    /\ pc = "while" /\ cycle.clears = 1 /\ ~start_comm
    /\ waiting_event /\ saving_event /\ is_triggered_event /\ pulses = 1

\* C19: in a cycle whose gating condition was true and confirmed while no
\* settings entry has ever been drained the link is not called, nothing is put
\* on the duration queue and experimentStart is not cleared.
C19_NoUnbuiltRequest ==
    (cycle.confirmed /\ current_config = << >>) =>
        /\ ~cycle.called /\ cycle.sent = << >>
        /\ calls = 0 /\ sockets = 0
        /\ cycle.puts = 0 /\ duration_queue = << >>
        /\ cycle.clears = 0 /\ hist.clears = 0

C19_Witness ==
    /\ pc = "crashed" /\ cycle.confirmed /\ current_config = << >>
    /\ start_comm /\ ~cycle.called

\* C20: a drain that has begun ends: run reaches the evaluation of the gating
\* condition.
C20_DrainEnds == (pc = "drain") ~> (pc = "cond")

\* isSaving and hardwareTriggered set and isWaiting clear
OthersInPosition == saving_event /\ is_triggered_event /\ ~waiting_event

\* C21: the request changes only when the drain pops an entry, and a call of
\* the link is given the request as it stands: an iteration whose drain pops
\* nothing sends the request the last popping drain built.
C21_RequestKeptWithoutPop ==
    [][/\ current_config' # current_config =>
            /\ pc = "drain"
            /\ Len(current_settings_queue') < Len(current_settings_queue)
       /\ (cycle'.called /\ ~cycle.called /\ cycle'.sent # << >>) =>
            cycle'.sent = current_config]_vars

C21_Witness ==
    /\ pc = "poll" /\ calls = 2 /\ published = 1
    /\ cycle.sent = << [lightsheet |-> clean_json(1)] >>

C23_LogOnChangeOnly ==
    [][/\ (pc = "cond" /\ pc' # "cond" /\ scanning_trigger) =>
            ((pc' = "log") <=>
                (cond_ret' # (IF cond_ret = "None" THEN "False" ELSE cond_ret)))
       /\ (scanning_trigger /\ pc' # "log" /\ cond_ret' # "None") =>
            last_trigger_cond' = (cond_ret' = "True")]_vars

C23_Witness ==
    /\ pc = "log" /\ cond_ret = "False" /\ last_trigger_cond /\ calls = 1

C25_GatingHoldsAtSend == [][calls' = calls + 1 => OthersInPosition]_vars

\* C25 as amended: a call of the link is made only in an iteration whose
\* evaluation found all four signals in position and whose confirmation found
\* experimentStart set; isSaving, hardwareTriggered and isWaiting are not read
\* again before the request is sent.
C25_GatingHeldAtEvaluation ==
    cycle.called =>
        cycle.evaluated /\ cycle.signals /\ cycle.gated /\ cycle.confirmed

C25_Witness ==
    /\ pc = "poll" /\ inbox = << >> /\ cycle.called /\ cycle.signals
    /\ ~saving_event /\ waiting_event

\* C26: a set of experimentStart is followed by a dispatch made after it,
\* unless stop is set, run ends, one of the other three signals leaves its
\* position or the writer clears experimentStart again.
C26_NoPulseLost ==
    (start_comm /\ scanning_trigger /\ current_config # << >>)
        ~> \/ cycle.called /\ cycle.pulse = pulses
           \/ stop_event \/ RunEnded \/ ~OthersInPosition
           \/ ~start_comm /\ hist.clear_pulse < pulses

\* C27: with a request built, stop clear and the four signals in position,
\* run dispatches and then clears experimentStart, unless stop is set or one
\* of the signals is changed by its writer first.
C27_DispatchThenClear ==
    (/\ cycle.clears = 0 /\ start_comm /\ OthersInPosition /\ ~stop_event
     /\ scanning_trigger /\ current_config # << >> /\ ~RunEnded)
        ~> \/ cycle.called /\ cycle.clears = 1
           \/ stop_event \/ ~OthersInPosition
           \/ ~start_comm /\ cycle.clears = 0

\* C28: when the coordinator has cleared experimentStart the call of the
\* iteration has returned, and the value it returned, if any, is the last
\* entry of the duration queue.
C28_PutBeforeClear ==
    cycle.clears >= 1 =>
        /\ cycle.returned
        /\ cycle.ret # None =>
             /\ cycle.puts = 1
             /\ duration_queue # << >>
             /\ duration_queue[Len(duration_queue)] = cycle.ret

C28_Witness ==
    /\ pc = "while" /\ cycle.clears = 1 /\ ~start_comm /\ cycle.ret = JFloat(5)
    /\ duration_queue = << JFloat(5) >>

\* C29: at most one request is dispatched while stop is set.
C29_OneDispatchAfterStop == hist.after_stop <= 1

C29_Witness == pc = "done" /\ stop_seen /\ hist.after_stop = 1 /\ calls = 2

\* C30: with conf["scopeless"] no socket or context is ever made and no
\* request reaches the peer; an iteration that called the link and got absent
\* put nothing, and it ends with experimentStart cleared.
C30_ScopelessUsesMock ==
    scopeless =>
        /\ sockets = 0 /\ contexts = 0 /\ pending = {} /\ inbox = << >>
        /\ pc # "poll" /\ cycle.reply = NotPolled
        /\ (cycle.called /\ cycle.ret = None) => cycle.puts = 0
        /\ (pc = "while" /\ cycle.called) => cycle.clears = 1

C30_Witness ==
    /\ scopeless /\ pc = "while" /\ cycle.called /\ cycle.ret = None
    /\ cycle.clears = 1 /\ duration_queue = << >> /\ ~start_comm

\* C31: every gating-condition log line is self-consistent: the four signal
\* values it reports give, under the gating formula, the boolean it reports,
\* also when a signal changes between the evaluation and the formatting.
C31_LogLineSelfConsistent ==
    [][(pc = "log" /\ pc' # "log")
         => (LogLine.cond = PyBool(/\ LogLine.start_comm
                                   /\ LogLine.saving
                                   /\ LogLine.is_triggered
                                   /\ ~LogLine.waiting))]_vars

====
